---- MODULE Spec2Model ----
(***************************************************************************)
(* A model of wado/wado.py: WadoConnection (the session with its re-entrant *)
(* lock, the retry loop of get_response_raw, the login handshake of         *)
(* get_response_top_level, handle_urlerror, the two download operations and *)
(* write_response) and WadoServerResponse (the response classifier).        *)
(***************************************************************************)
EXTENDS Integers, Sequences, FiniteSets, TLC

\* ------------------------------------------------------------------ bounds

\* Number of threads sharing the one WadoConnection.
NumThreads == 2

\* Number of times the properties and methods of one response are used.
MaxAccesses == 3

Threads == 1..NumThreads

\* ------------------------------------------------------- program constants

\* timeouts_series = [30, 30, 30, 300]
timeouts_series == <<30, 30, 30, 300>>

\* block_sz = 8192
block_sz == 8192

\* A URL that is neither a resource URL nor the login URL of the session.
OTHER_URL == <<"http://elsewhere/">>

\* The folder argument of a download, and os.path.join(folder, file_name).
FOLDER == "folder"

PathJoin(folder, file_name) == <<folder, file_name>>

\* -------------------------------------------------- what the server can send

\* Content-Type header values; NoHeader stands for an absent header.
NoHeader == "<absent>"

TextHtml == "text/html;charset=ISO-8859-1"

NamedDisposition == "val=test;filename=testfilename.dcm"

ContentTypes ==
    { NoHeader, TextHtml, "application/dicom", "image/jpeg", "text/plain" }

\* Content-Disposition header values: absent, present without a filename
\* parameter, with an empty filename, with a filename.
Dispositions ==
    { NoHeader, "attachment", "val=test;filename=", NamedDisposition }

\* Status codes of a response that opener.open returns (urllib turns the
\* codes outside 2xx into HTTPError).
Codes == { 200, 204 }

\* Bodies: what the bytes decode to, and how many bytes there are.
\*   "login"  valid UTF-8 holding the marker "user login at"
\*   "other"  valid UTF-8 without the marker
\*   "binary" not valid UTF-8
EmptyBody == [text |-> "other", size |-> 0]

LoginBody == [text |-> "login", size |-> 60]

BinaryBody == [text |-> "binary", size |-> block_sz + 1]

Bodies == { EmptyBody, LoginBody, BinaryBody }

\* The responses opener.open can return: every combination with status 200,
\* and a smaller choice with another 2xx status.
Responses ==
    [ code : {200}, ct : ContentTypes, cd : Dispositions, body : Bodies ]
    \cup [ code : Codes \ {200}, ct : {NoHeader, TextHtml, "application/dicom"},
           cd : {NoHeader, NamedDisposition}, body : {LoginBody, BinaryBody} ]

\* The failures opener.open can raise.
SocketTimeout == [type |-> "socket.timeout"]

URLErrors ==
    { [type |-> "URLError", reason |-> r] : r \in {"Not Found", "Host unreachable"} }

HTTPErrors ==
    { [type |-> "HTTPError", code |-> c[1], reason |-> c[2]] :
        c \in { <<500, "Internal Server Error">>, <<403, "Forbidden">>,
                <<404, "Not Found">> } }

\* isinstance(e, urllib.error.URLError): HTTPError is a subclass of URLError.
IsURLError(e) == e.type \in {"URLError", "HTTPError"}

IsHTTPError(e) == e.type = "HTTPError"

\* The exception classes of the module and isinstance on them.
WadoTaxonomy ==
    { "WadoWrapperException", "WadoServerResponseException",
      "WadoResourceNotFoundException", "WadoConnectionException",
      "WadoConnectionAuthException" }

IsWadoConnectionException(e) ==
    e.type \in {"WadoConnectionException", "WadoConnectionAuthException"}

NoExc == [type |-> "none"]

\* str(e) of a transport error, as the pieces it is formatted from.
StrOfCode(c) == ToString(c)

StrOf(e) ==
    IF e.type = "HTTPError"
    THEN <<"HTTP Error ", StrOfCode(e.code), ": ", e.reason>>
    ELSE IF e.type = "URLError"
    THEN <<"<urlopen error ", e.reason, ">">>
    ELSE <<e.type>>

\* An exception of the module's taxonomy: class, message pieces, org_exception.
WadoExc(type, msg, org) == [type |-> type, msg |-> msg, org |-> org]

\* Exceptions the interpreter raises on the paths modelled here.
UnboundLocalError == [type |-> "UnboundLocalError"]

KeyError == [type |-> "KeyError"]

UnicodeDecodeError == [type |-> "UnicodeDecodeError"]

OSError == [type |-> "OSError"]

TypeError == [type |-> "TypeError"]

ValueError == [type |-> "ValueError"]

\* ------------------------------------------------------ WadoServerResponse

\* The value opener.open returns: the response with the URL it came from, the
\* number of the GET that produced it, the read position of its body and the
\* number of read() calls without a size made on it.
AddInfoUrl(r, url, nth) ==
    [code |-> r.code, ct |-> r.ct, cd |-> r.cd, body |-> r.body,
     url |-> url, nth |-> nth, pos |-> 0, reads |-> 0]

Unbound == [unbound |-> TRUE]

\* Python's None: for the filename and a header (a string), for _text (bytes).
None == "<None>"

NoneBytes == [none |-> TRUE]

\* WadoServerResponse.__init__
WadoServerResponse(addinfourl) == [addinfourl |-> addinfourl, text_ |-> NoneBytes]

NoResp == [noresp |-> TRUE]

\* A result of evaluating a property: a value or a raised exception, with the
\* response as the evaluation left it.
Ret(resp, v) == [resp |-> resp, raised |-> FALSE, value |-> v, exc |-> NoExc]

Raise(resp, e) == [resp |-> resp, raised |-> TRUE, value |-> None, exc |-> e]

\* "text/html" in ct
ContainsTextHtml(ct) == ct \in {TextHtml}

\* WadoServerResponse.is_text_response
is_text_response(resp) ==
    LET ct == resp.addinfourl.ct
    IN  IF ct = NoHeader
        THEN Raise(resp, WadoExc("WadoServerResponseException",
                                 <<"No content-type specified for this response">>,
                                 NoExc))
        ELSE Ret(resp, ContainsTextHtml(ct))

\* addinfourl.read(): the bytes from the read position to the end.
ReadAll(a) == [from |-> a.pos, to |-> a.body.size, text |-> a.body.text]

\* Truth value of a bytes object or None.
Truthy(b) == b # NoneBytes /\ b.to > b.from

\* WadoServerResponse.text
text(resp) ==
    IF Truthy(resp.text_)
    THEN Ret(resp, resp.text_)
    ELSE LET it == is_text_response(resp)
         IN  IF it.raised THEN it
             ELSE IF it.value
             THEN LET b == ReadAll(resp.addinfourl)
                      r == [resp EXCEPT !.text_ = b, !.addinfourl.pos = b.to,
                                        !.addinfourl.reads = @ + 1]
                  IN  Ret(r, b)
             ELSE Ret(resp, resp.text_)

\* "user login at" in b.decode("utf-8").lower()
HasLoginMarker(b) == b.from = 0 /\ b.to > 0 /\ b.text = "login"

\* Whether b.decode("utf-8") succeeds.
Decodable(b) == b.to = b.from \/ b.text # "binary"

\* is_password_request_page that never reads the body.
is_password_request_page_unread(resp) ==
    LET it == is_text_response(resp)
    IN  IF it.raised THEN it ELSE Ret(resp, FALSE)

\* WadoServerResponse.is_password_request_page
is_password_request_page(resp) ==
    LET it == is_text_response(resp)
    IN  IF it.raised THEN it
        ELSE IF it.value
        THEN LET t == text(resp)
             IN  IF t.raised THEN t
                 ELSE IF ~Decodable(t.value) THEN Raise(t.resp, UnicodeDecodeError)
                 ELSE Ret(t.resp, HasLoginMarker(t.value))
        ELSE Ret(resp, FALSE)

\* is_image_data that also takes a text/html response for image data.
is_image_data_or_text(resp) ==
    LET ct == resp.addinfourl.ct
    IN  ct = "application/dicom" \/ ct \in {"image/jpeg", "image/gif", "image/bmp", "image/tiff"}
           \/ ContainsTextHtml(ct)

image_content_types == {"image/jpeg", "image/gif", "image/bmp", "image/tiff"}

\* WadoServerResponse.is_image_data
is_image_data(resp) ==
    LET ct == resp.addinfourl.ct
        is_dicom == ct = "application/dicom"
        is_image == ct \in image_content_types
    IN  is_dicom \/ is_image

\* cgi.parse_header(cd)[1]: the parameters of a header value, as a function
\* from parameter names to values.
ParseHeaderParams(cd) ==
    IF cd = NamedDisposition
    THEN [k \in {"filename"} |-> "testfilename.dcm"]
    ELSE IF cd = "val=test;filename="
    THEN [k \in {"filename"} |-> ""]
    ELSE [k \in {} |-> ""]

\* WadoServerResponse.get_filename
get_filename(resp) ==
    LET cd == resp.addinfourl.cd
    IN  IF cd # NoHeader /\ cd # ""
        THEN LET params == ParseHeaderParams(cd)
             IN  IF "filename" \in DOMAIN params
                 THEN Ret(resp, params["filename"])
                 ELSE Raise(resp, KeyError)
        ELSE Ret(resp, None)

\* not file_name
NotTruthyName(file_name) == file_name = None \/ file_name = ""

\* WadoServerResponseType
PASSWORD_REQUEST_PAGE == "password_request_page"

DICOM_DATA == "dicom_data"

UNKNOWN == "unknown"

\* The call b() of a bool: TypeError, 'bool' object is not callable.
CallBool(resp, b) == Raise(resp, TypeError)

\* WadoServerResponse.get_response_type.  Its elif reads
\* self.is_image_data(): the property gives a bool, and the bool is called.
get_response_type(resp) ==
    LET p == is_password_request_page(resp)
    IN  IF p.raised THEN p
        ELSE IF p.value THEN Ret(p.resp, PASSWORD_REQUEST_PAGE)
        ELSE LET c == CallBool(p.resp, is_image_data(p.resp))
             IN  IF c.raised THEN c
                 ELSE IF c.value THEN Ret(c.resp, DICOM_DATA)
                 ELSE Ret(c.resp, UNKNOWN)

\* ------------------------------------------------------------ WadoConnection

VARIABLES
    self,     \* the WadoConnection's fields
    lock,     \* self.__lock, an RLock: its owner and its recursion count
    th        \* per thread: position in the code, the locals of its call,
              \* the file object it opened and the last line it logged

vars == <<self, lock, th>>

\* The resource parameter mappings a caller passes, as sequences of pairs.
ResourceParams ==
    { << <<"studyUID", "123345">>, <<"seriesUID", "547567">> >> }

\* urllib.parse.quote_plus on the strings used here.
QuotePlus(str) == IF str = "1 2" THEN "1+2" ELSE str

\* urllib.parse.urlencode: key=value pairs joined by "&".
RECURSIVE urlencode(_)
urlencode(params) ==
    IF params = <<>> THEN <<>>
    ELSE LET kv == <<QuotePlus(params[1][1]), "=", QuotePlus(params[1][2])>>
         IN  IF Len(params) = 1 THEN kv
             ELSE kv \o <<"&">> \o urlencode(Tail(params))

\* WadoConnection.get_base_url_for_query
get_base_url_for_query(s) == <<"http://", s.hostname, ":", s.port, "/wado/?">>

\* WadoConnection.get_resource_url
get_resource_url(s, resource_parameters) ==
    LET base == get_base_url_for_query(s)
        withParams ==
            IF resource_parameters # <<>>
            THEN base \o urlencode(resource_parameters)
                      \o <<"&contentType=application/dicom&requestType=WADO">>
            ELSE base
    IN  IF s.force_transfer_syntax # None
        THEN withParams \o <<"&transferSyntax=", s.force_transfer_syntax>>
        ELSE withParams

\* WadoConnection.get_login_url
get_login_url(s) ==
    <<"http://", s.hostname, ":", s.port, "/wado/j_security_check?",
      "j_username=", s.username, "&j_password=", s.password>>

\* WadoConnection.make_safe_for_logging
make_safe_for_logging(s, msg) ==
    [i \in DOMAIN msg |-> IF msg[i] = s.password THEN "<password>" ELSE msg[i]]

\* The values of the loglevel argument: the five levels of the logging module
\* and one value that is none of them.
LogLevels == { "DEBUG", "INFO", "WARNING", "ERROR", "CRITICAL", "NOTSET" }

\* WadoConnection.mylog: the line handed to the logger and the exception the
\* call ends with.  At ERROR the statement is logger.error(msg)(sm): msg is
\* logged as it came, and the call of the None that logger.error returned
\* raises TypeError.
mylog(s, msg, loglevel) ==
    LET sm == make_safe_for_logging(s, msg)
    IN  IF loglevel \in {"DEBUG", "INFO", "WARNING"}
        THEN [emitted |-> sm, exc |-> NoExc]
        ELSE IF loglevel = "ERROR"
        THEN [emitted |-> msg, exc |-> TypeError]
        ELSE IF loglevel = "CRITICAL"
        THEN [emitted |-> sm, exc |-> NoExc]
        ELSE [emitted |-> <<>>, exc |-> ValueError]

\* handle_urlerror without the last `else` of its HTTPError branch: an HTTP
\* code other than 500 and 403 falls through to the test of e.reason.
handle_urlerror_fallthrough(s, e, resource_url) ==
    IF IsHTTPError(e) /\ e.code = 500
    THEN WadoExc("WadoServerResponseException",
                 <<"Got 'server error' response when requesting '">>
                   \o resource_url
                   \o <<": This might happen if you do not include seriesUID explicitly. Original error:'">>
                   \o StrOf(e) \o <<"'">>,
                 e)
    ELSE IF IsHTTPError(e) /\ e.code = 403
    THEN WadoExc("WadoServerResponseException",
                 <<"Got '403, access denied' response when requesting '">>
                   \o resource_url
                   \o <<": Something might be wrong with your credentials error:'">>
                   \o StrOf(e) \o <<"'">>,
                 e)
    ELSE IF e.reason = "Not Found"
    THEN WadoExc("WadoResourceNotFoundException",
                 <<"WADO resource for '">> \o resource_url \o <<"' not found">>,
                 NoExc)
    ELSE WadoExc("WadoConnectionException",
                 <<"Did not get response from WADO server at '", s.hostname, ":",
                   s.port, "'. Original error:'">> \o StrOf(e) \o <<"'">>,
                 NoExc)

\* WadoConnection.handle_urlerror: the exception it raises for e; NoExc would
\* mean that it returned normally.
handle_urlerror(s, e, resource_url) ==
    IF IsHTTPError(e)
    THEN IF e.code = 500
         THEN WadoExc("WadoServerResponseException",
                      <<"Got 'server error' response when requesting '">>
                        \o resource_url
                        \o <<": This might happen if you do not include seriesUID explicitly. Original error:'">>
                        \o StrOf(e) \o <<"'">>,
                      e)
         ELSE IF e.code = 403
         THEN WadoExc("WadoServerResponseException",
                      <<"Got '403, access denied' response when requesting '">>
                        \o resource_url
                        \o <<": Something might be wrong with your credentials error:'">>
                        \o StrOf(e) \o <<"'">>,
                      e)
         ELSE WadoExc("WadoServerResponseException",
                      <<"Got HTTP error response from server when requesting '">>
                        \o resource_url
                        \o <<"' Original error:'">> \o StrOf(e) \o <<"'">>,
                      e)
    ELSE IF e.reason = "Not Found"
    THEN WadoExc("WadoResourceNotFoundException",
                 <<"WADO resource for '">> \o resource_url \o <<"' not found">>,
                 NoExc)
    ELSE WadoExc("WadoConnectionException",
                 <<"Did not get response from WADO server at '", s.hostname, ":",
                   s.port, "'. Original error:'">> \o StrOf(e) \o <<"'">>,
                 NoExc)

\* ---- the RLock

\* Whether acquire() returns at once for thread t.
CanAcquire(lk, t) == lk.owner \subseteq {t}

\* One `with self.__lock:` entered by t.
Enter(lk, t) == [owner |-> {t}, count |-> lk.count + 1]

\* One `with self.__lock:` left.
Exit(lk) ==
    IF lk.count <= 1 THEN [owner |-> {}, count |-> 0]
    ELSE [lk EXCEPT !.count = @ - 1]

\* n with-blocks left, innermost first.
RECURSIVE ExitN(_, _)
ExitN(lk, n) == IF n = 0 THEN lk ELSE ExitN(Exit(lk), n - 1)

\* ---- the locals of a call

NoFile == [nofile |-> TRUE]

Idle ==
    [pc |-> "idle", op |-> "none", arg |-> <<>>, step |-> "none", url |-> <<>>,
     timeout_i |-> 0, u |-> Unbound, log |-> <<>>, fetches |-> <<>>,
     resp |-> NoResp, exc |-> NoExc, terr |-> NoExc, f |-> NoFile,
     checked |-> FALSE, opens |-> 0, writes |-> 0, allPw |-> TRUE, held |-> 0,
     logged |-> <<>>, ret |-> <<>>, calls |-> 0]

\* WadoConnection.__init__
Init ==
    /\ self = [hostname |-> "testhost", port |-> "123", username |-> "testuser",
               password |-> "testpass", force_transfer_syntax |-> None,
               opener_ |-> None, built |-> 0]
    /\ lock = [owner |-> {}, count |-> 0]
    /\ th = [t \in Threads |-> Idle]

\* ---- the calls

\* The URLs a caller hands to download_image.
DownloadUrls == { get_resource_url(self, p) : p \in ResourceParams } \cup { OTHER_URL }

\* A thread calls download_image(url, folder) and comes to its
\* `with self.__lock:`.
CallDownloadImage(t) ==
    /\ th[t].pc = "idle"
    /\ th' = [th EXCEPT ![t] = [Idle EXCEPT !.pc = "acquire", !.op = "download_image"]]
    /\ UNCHANGED <<self, lock>>

\* A thread calls download_wado_image(resource_parameters, folder) and comes
\* to its `with self.__lock:`.
CallDownloadWadoImage(t) ==
    /\ th[t].pc = "idle"
    /\ th' = [th EXCEPT ![t] = [Idle EXCEPT !.pc = "acquire",
                                            !.op = "download_wado_image"]]
    /\ UNCHANGED <<self, lock>>

\* download_image without its `with self.__lock:`.
EnterDownloadImageUnlocked(t) ==
    /\ th[t].pc = "acquire"
    /\ th[t].op = "download_image"
    /\ \E url \in DownloadUrls :
          th' = [th EXCEPT ![t].pc = "fetch", ![t].held = 0, ![t].step = "first",
                           ![t].arg = url, ![t].url = url]
    /\ UNCHANGED <<self, lock>>

\* download_image enters its `with self.__lock:`; its first statement is
\* get_response_safe(url).
EnterDownloadImage(t) ==
    /\ th[t].pc = "acquire"
    /\ th[t].op = "download_image"
    /\ CanAcquire(lock, t)
    /\ lock' = Enter(lock, t)
    /\ \E url \in DownloadUrls :
          th' = [th EXCEPT ![t].pc = "fetch", ![t].held = 1, ![t].step = "first",
                           ![t].arg = url, ![t].url = url]
    /\ UNCHANGED self

\* download_wado_image enters its `with self.__lock:`, builds resource_url and
\* enters get_response_top_level, whose first statement is
\* get_response_safe(resource_url).
EnterDownloadWadoImage(t) ==
    /\ th[t].pc = "acquire"
    /\ th[t].op = "download_wado_image"
    /\ CanAcquire(lock, t)
    /\ lock' = Enter(lock, t)
    /\ \E params \in ResourceParams :
          th' = [th EXCEPT ![t].pc = "fetch", ![t].held = 1, ![t].step = "first",
                           ![t].arg = params,
                           ![t].url = get_resource_url(self, params)]
    /\ UNCHANGED self

\* get_response_safe(url) -> get_response(url) -> get_response_raw(url), up to
\* the head of the retry loop: three nested `with self.__lock:` and the mylog.
StartFetch(t) ==
    /\ th[t].pc = "fetch"
    /\ CanAcquire(lock, t)
    /\ lock' = Enter(Enter(Enter(lock, t), t), t)
    /\ th' = [th EXCEPT ![t].pc = "open",
                        ![t].logged = mylog(self, <<"Opening ">> \o th[t].url,
                                            "DEBUG").emitted,
                        ![t].timeout_i = 0,
                        ![t].u = Unbound,
                        ![t].resp = NoResp,
                        ![t].log = <<>>,
                        ![t].fetches = Append(@, th[t].url)]
    /\ UNCHANGED self

\* ---- get_response_raw: one pass of the retry loop per action

\* `if timeout_i >= len(timeouts_series): raise e`
TimeoutReraised(timeout_i) == timeout_i >= Len(timeouts_series)

\* A retry loop that does not stop at a status of 200.
LoopNeverBreaks(u) == FALSE

\* `if u.getcode() == 200: break`
LoopBreaks(u) == u.code = 200

\* `return u` and the return of get_response: three with-blocks are left when
\* u is unbound (UnboundLocalError), two when get_response hands the wrapped
\* response to get_response_safe.
ReturnU(rec) ==
    IF rec.u = Unbound
    THEN [rec |-> [rec EXCEPT !.exc = UnboundLocalError, !.pc = "except"],
          exits |-> 3]
    ELSE [rec |-> [rec EXCEPT !.resp = WadoServerResponse(rec.u),
                              !.u = Unbound, !.pc = "safe"],
          exits |-> 2]

\* The end of one pass that did not break and did not raise.
NextPass(rec) ==
    IF rec.timeout_i + 1 < Len(timeouts_series)
    THEN [rec |-> [rec EXCEPT !.timeout_i = @ + 1], exits |-> 0]
    ELSE ReturnU(rec)

\* The GET of this pass, recorded.
Attempt(rec, result) ==
    [rec EXCEPT !.log = Append(@, [timeout |-> timeouts_series[rec.timeout_i + 1],
                                   result |-> result])]

\* The opener property with a new CookieJar and opener built at every use.
opener_rebuilt(s) == [s EXCEPT !.opener_ = "opener", !.built = @ + 1]

\* The opener property: the opener, with its CookieJar, is built on first
\* use; built counts the calls of build_opener.
opener(s) ==
    IF s.opener_ = None THEN [s EXCEPT !.opener_ = "opener", !.built = @ + 1]
    ELSE s

\* Whether a response, as get_response_safe would see it, is a password page.
IsPasswordPage(a) ==
    LET r == is_password_request_page(WadoServerResponse(a))
    IN  ~r.raised /\ r.value

\* opener.open returns a response.
OpenResponse(t) ==
    /\ th[t].pc = "open"
    /\ \E r \in Responses :
          LET a == AddInfoUrl(r, th[t].url, th[t].timeout_i + 1)
              rec == [Attempt(th[t], IF r.code = 200 THEN "200" ELSE "non200")
                        EXCEPT !.u = a,
                               !.allPw = @ /\ IsPasswordPage(a)]
              out == IF LoopBreaks(a) THEN ReturnU(rec) ELSE NextPass(rec)
          IN  /\ th' = [th EXCEPT ![t] = out.rec]
              /\ lock' = ExitN(lock, out.exits)
    /\ self' = opener(self)

\* opener.open raises socket.timeout.
OpenTimeout(t) ==
    /\ th[t].pc = "open"
    /\ LET rec == [Attempt(th[t], "timeout") EXCEPT !.allPw = FALSE]
           out == IF TimeoutReraised(rec.timeout_i)
                  THEN [rec |-> [rec EXCEPT !.exc = SocketTimeout, !.pc = "except"],
                        exits |-> 3]
                  ELSE NextPass(rec)
       IN  /\ th' = [th EXCEPT ![t] = out.rec]
           /\ lock' = ExitN(lock, out.exits)
    /\ self' = opener(self)

\* A retry loop that takes a URLError like a timeout and goes on to the next
\* pass.
OnTransportErrorRetry(rec, e) == NextPass([rec EXCEPT !.terr = e])

\* A URLError that leaves the three nested with-blocks while only two of
\* them release the lock.
OnTransportErrorLeaks(rec, e) ==
    [rec |-> [rec EXCEPT !.exc = e, !.terr = e, !.pc = "except"], exits |-> 2]

\* What a pass does with a URLError or HTTPError from opener.open: no except
\* clause matches, the exception leaves get_response_raw, get_response and
\* get_response_safe.
OnTransportError(rec, e) ==
    [rec |-> [rec EXCEPT !.exc = e, !.terr = e, !.pc = "except"], exits |-> 3]

\* opener.open raises URLError or HTTPError.
OpenError(t) ==
    /\ th[t].pc = "open"
    /\ \E e \in URLErrors \cup HTTPErrors :
          LET rec == [Attempt(th[t], "error") EXCEPT !.allPw = FALSE]
              out == OnTransportError(rec, e)
          IN  /\ th' = [th EXCEPT ![t] = out.rec]
              /\ lock' = ExitN(lock, out.exits)
    /\ self' = opener(self)

\* ---- get_response_safe, after get_response returned

\* get_response_safe without its password-page check.
SafeCheckNoAuth(resp) ==
    LET r == is_password_request_page(resp)
    IN  IF r.raised THEN r ELSE Ret(r.resp, r.resp)

\* What get_response_safe does with the response: raise what the password
\* check raised, raise WadoConnectionAuthException on a password page, or
\* return the response.
SafeCheck(resp) ==
    LET r == is_password_request_page(resp)
    IN  IF r.raised THEN r
        ELSE IF r.value
        THEN Raise(r.resp, WadoExc("WadoConnectionAuthException",
                                   <<"Not authenticated. I'm receiving a login page">>,
                                   NoExc))
        ELSE Ret(r.resp, r.resp)

\* get_response_top_level fetching the resource again after a login that was
\* answered.
TopLevelReturnRefetch(s, rec) ==
    IF rec.step = "login"
    THEN [rec EXCEPT !.pc = "fetch", !.step = "refetch",
                     !.url = get_resource_url(s, rec.arg)]
    ELSE [rec EXCEPT !.pc = "validate"]

\* get_response_top_level's `return resp`: back in download_wado_image, at the
\* checks on the response.
TopLevelReturn(s, rec) == [rec EXCEPT !.pc = "validate"]

GetResponseSafe(t) ==
    /\ th[t].pc = "safe"
    /\ LET r == SafeCheck(th[t].resp)
           after == [th[t] EXCEPT !.resp = [r.resp EXCEPT !.addinfourl.nth = 0],
                                  !.exc = r.exc,
                                  !.log = <<>>]
       IN  th' = [th EXCEPT ![t] =
                     IF r.raised THEN [after EXCEPT !.pc = "except"]
                     ELSE IF th[t].op = "download_wado_image"
                     THEN TopLevelReturn(self, after)
                     ELSE [after EXCEPT !.pc = "validate"]]
    /\ lock' = Exit(lock)
    /\ UNCHANGED self

\* ---- an exception leaves get_response_safe

\* download_image has no handler: the exception leaves the call.
DownloadImageExcept(t) ==
    /\ th[t].pc = "except"
    /\ th[t].op = "download_image"
    /\ th' = [th EXCEPT ![t].pc = "ending", ![t].log = <<>>]
    /\ UNCHANGED <<self, lock>>

\* Handlers of the outer try that go on to the login URL whatever
\* get_response_safe raised.
TopLevelFirstLoginOnAny(s, e, resource_url) == [next |-> "login", exc |-> NoExc]

\* Handlers of the outer try that treat WadoServerResponseException as the
\* inner try does.
TopLevelFirstRewraps(s, e, resource_url) ==
    IF e.type = "WadoConnectionAuthException" THEN [next |-> "login", exc |-> NoExc]
    ELSE IF e.type = "WadoServerResponseException"
    THEN [next |-> "raise",
          exc |-> WadoExc("WadoConnectionException",
                          <<"got some response but not HTML from WADO server at'",
                            s.hostname, ":", s.port, "'">>, NoExc)]
    ELSE IF IsURLError(e)
    THEN LET h == handle_urlerror(s, e, resource_url)
         IN  [next |-> "raise", exc |-> IF h = NoExc THEN UnboundLocalError ELSE h]
    ELSE [next |-> "raise", exc |-> e]

\* get_response_top_level without its outer `except urllib.error.URLError`.
TopLevelFirstNoUrlError(s, e, resource_url) ==
    IF e.type = "WadoConnectionAuthException" THEN [next |-> "login", exc |-> NoExc]
    ELSE [next |-> "raise", exc |-> e]

\* get_response_top_level, the handlers of the outer try: on
\* WadoConnectionAuthException go on to the login URL ("login"), on URLError
\* raise what handle_urlerror raises, else let the exception through.  When
\* handle_urlerror returns, `return resp` finds resp unbound.
TopLevelFirst(s, e, resource_url) ==
    IF e.type = "WadoConnectionAuthException" THEN [next |-> "login", exc |-> NoExc]
    ELSE IF IsURLError(e)
    THEN LET h == handle_urlerror(s, e, resource_url)
         IN  [next |-> "raise", exc |-> IF h = NoExc THEN UnboundLocalError ELSE h]
    ELSE [next |-> "raise", exc |-> e]

TopLevelExceptFirst(t) ==
    /\ th[t].pc = "except"
    /\ th[t].op = "download_wado_image"
    /\ th[t].step = "first"
    /\ LET r == TopLevelFirst(self, th[t].exc, get_resource_url(self, th[t].arg))
       IN  th' = [th EXCEPT ![t].log = <<>>,
                            ![t].exc = r.exc,
                            ![t].step = IF r.next = "login" THEN "login" ELSE @,
                            ![t].url = IF r.next = "login" THEN get_login_url(self) ELSE @,
                            ![t].pc = IF r.next = "login" THEN "fetch" ELSE "ending"]
    /\ UNCHANGED <<self, lock>>

\* The handlers of the inner try without `except WadoServerResponseException`.
TopLevelLoginNoRewrap(s, e, resource_url) ==
    IF e.type = "WadoConnectionAuthException"
    THEN WadoExc("WadoConnectionAuthException",
                 <<"Credentials for user '", s.username, "' do not seem to be accepted">>,
                 NoExc)
    ELSE IF IsURLError(e)
    THEN LET h == handle_urlerror(s, e, resource_url)
         IN  IF h = NoExc THEN UnboundLocalError ELSE h
    ELSE e

\* get_response_top_level, the handlers of the inner try around the login
\* fetch.
TopLevelLogin(s, e, resource_url) ==
    IF e.type = "WadoConnectionAuthException"
    THEN WadoExc("WadoConnectionAuthException",
                 <<"Credentials for user '", s.username, "' do not seem to be accepted">>,
                 NoExc)
    ELSE IF e.type = "WadoServerResponseException"
    THEN WadoExc("WadoConnectionException",
                 <<"got some response but not HTML from WADO server at'", s.hostname,
                   ":", s.port, "'. Maybe wrong port or hostname. Original error:'">>
                   \o e.msg \o <<"'">>,
                 NoExc)
    ELSE IF IsURLError(e)
    THEN LET h == handle_urlerror(s, e, resource_url)
         IN  IF h = NoExc THEN UnboundLocalError ELSE h
    ELSE e

TopLevelExceptLogin(t) ==
    /\ th[t].pc = "except"
    /\ th[t].op = "download_wado_image"
    /\ th[t].step = "login"
    /\ th' = [th EXCEPT ![t].log = <<>>,
                        ![t].exc = TopLevelLogin(self, th[t].exc,
                                                 get_resource_url(self, th[t].arg)),
                        ![t].pc = "ending"]
    /\ UNCHANGED <<self, lock>>

\* ---- the checks before the write, and write_response

\* The checks of download_image and download_wado_image on the response:
\* the exception they end with, or NoExc when the response may be written.
CheckWritable(resp) ==
    LET fn == get_filename(resp)
    IN  IF fn.raised THEN fn.exc
        ELSE IF NotTruthyName(fn.value)
        THEN WadoExc("WadoConnectionException",
                     <<"This url does not specify a filename.I don't know which name to use to save this">>,
                     NoExc)
        ELSE IF ~is_image_data(resp)
        THEN WadoExc("WadoConnectionException",
                     <<"This url does seem to yield any image data">>, NoExc)
        ELSE NoExc

\* open_file(file_path, "wb"): a file object, open and empty.
open_file(file_path) == [path |-> file_path, closed |-> FALSE, data |-> <<>>]

\* The checks, then the head of write_response: the file is opened.
Validate(t) ==
    /\ th[t].pc = "validate"
    /\ LET e == CheckWritable(th[t].resp)
           path == PathJoin(FOLDER, get_filename(th[t].resp).value)
       IN  IF e # NoExc
           THEN th' = [th EXCEPT ![t].exc = e, ![t].checked = TRUE, ![t].pc = "ending"]
           ELSE th' = [th EXCEPT ![t].f = open_file(path),
                                 ![t].checked = TRUE,
                                 ![t].opens = @ + 1,
                                 ![t].pc = "write"]
    /\ UNCHANGED <<self, lock>>

\* A read that ignores the size it is asked for and returns the rest of the
\* body.
ReadBlockWhole(a, n) == [from |-> a.pos, to |-> a.body.size]

\* resp.addinfourl.read(block_sz): the byte range it returns.
ReadBlock(a, n) ==
    [from |-> a.pos,
     to |-> IF a.body.size - a.pos < n THEN a.body.size ELSE a.pos + n]

\* One pass of the copy loop: a read, then the break and f.close(), or the
\* write of the block.
WriteChunk(t) ==
    /\ th[t].pc = "write"
    /\ LET filebuffer == ReadBlock(th[t].resp.addinfourl, block_sz)
       IN  IF filebuffer.to = filebuffer.from
           THEN th' = [th EXCEPT ![t].f.closed = TRUE, ![t].pc = "ending"]
           ELSE th' = [th EXCEPT ![t].resp.addinfourl.pos = filebuffer.to,
                                 ![t].f.data = Append(@, filebuffer),
                                 ![t].writes = @ + 1]
    /\ UNCHANGED <<self, lock>>

\* A read of the body or a write to the file raises in the middle of the
\* copy: the exception leaves write_response.
WriteFails(t) ==
    /\ th[t].pc = "write"
    /\ th' = [th EXCEPT ![t].exc = OSError, ![t].pc = "ending"]
    /\ UNCHANGED <<self, lock>>

\* The end of the download's `with self.__lock:`; the call returns, or the
\* exception in th[t].exc leaves it.
LeaveDownload(t) ==
    /\ th[t].pc = "ending"
    /\ lock' = ExitN(lock, th[t].held)
    /\ th' = [th EXCEPT ![t] = Idle]
    /\ UNCHANGED self

\* One step of thread t.
Step(t) ==
    \/ CallDownloadImage(t)
    \/ CallDownloadWadoImage(t)
    \/ EnterDownloadImage(t)
    \/ EnterDownloadWadoImage(t)
    \/ StartFetch(t)
    \/ OpenResponse(t)
    \/ OpenTimeout(t)
    \/ OpenError(t)
    \/ GetResponseSafe(t)
    \/ DownloadImageExcept(t)
    \/ TopLevelExceptFirst(t)
    \/ TopLevelExceptLogin(t)
    \/ Validate(t)
    \/ WriteChunk(t)
    \/ WriteFails(t)
    \/ LeaveDownload(t)

Next == \E t \in Threads : Step(t)

Spec == Init /\ [][Next]_vars

\* ---- any session, and its methods called from outside a download

\* The username and force_transfer_syntax arguments of the constructor; a
\* user may have a password equal to the username.
Usernames == { "testuser", "testpass" }

TransferSyntaxes == { None, "1.2.840.10008.1.2.1" }

\* WadoConnection.__init__ with any of these arguments.
InitSession ==
    /\ self \in [hostname : {"testhost"}, port : {"123"}, username : Usernames,
                 password : {"testpass"},
                 force_transfer_syntax : TransferSyntaxes, opener_ : {None},
                 built : {0}]
    /\ lock = [owner |-> {}, count |-> 0]
    /\ th = [t \in Threads |-> Idle]

\* The resource parameter mappings of a direct call of get_resource_url: those
\* of a download, the empty mapping, and one whose value needs quoting.
AnyResourceParams ==
    ResourceParams \cup { <<>>, << <<"objectUID", "1 2">> >> }

\* A thread calls get_resource_url(resource_parameters); the URL is its result.
CallGetResourceUrl(t) ==
    /\ th[t].pc = "idle"
    /\ \E params \in AnyResourceParams :
          th' = [th EXCEPT ![t] = [Idle EXCEPT !.pc = "ending",
                                               !.op = "get_resource_url",
                                               !.arg = params,
                                               !.url = get_resource_url(self, params)]]
    /\ UNCHANGED <<self, lock>>

\* The messages of a direct call of mylog.
LogMessages == { <<"Opening ">> \o get_login_url(self), <<"download finished">> }

\* A thread calls mylog(msg, loglevel).
CallMyLog(t) ==
    /\ th[t].pc = "idle"
    /\ \E msg \in LogMessages : \E loglevel \in LogLevels :
          LET r == mylog(self, msg, loglevel)
          IN  th' = [th EXCEPT ![t] = [Idle EXCEPT !.pc = "ending",
                                                   !.op = "mylog",
                                                   !.arg = <<msg, loglevel>>,
                                                   !.logged = r.emitted,
                                                   !.exc = r.exc]]
    /\ UNCHANGED <<self, lock>>

\* One thread uses a session: downloads, and direct calls of get_resource_url
\* and mylog.
NextSession ==
    \/ Step(1)
    \/ CallGetResourceUrl(1)
    \/ CallMyLog(1)

SpecSession == InitSession /\ [][NextSession]_vars

\* ---- a WadoServerResponse, and its properties and methods used by a caller

\* A caller holds a response just built by get_response: any of the
\* responses, nothing read from it yet.
InitResponse ==
    /\ self = [hostname |-> "testhost", port |-> "123", username |-> "testuser",
               password |-> "testpass", force_transfer_syntax |-> None,
               opener_ |-> None, built |-> 0]
    /\ lock = [owner |-> {}, count |-> 0]
    /\ \E r \in Responses :
          th = [t \in Threads |->
                  IF t = 1
                  THEN [Idle EXCEPT !.pc = "response",
                                    !.resp = WadoServerResponse(AddInfoUrl(r, OTHER_URL, 1))]
                  ELSE Idle]

\* The outcome of one use of the response, kept with the response as the use
\* left it: the value returned as a one-element sequence of its text form,
\* the exception raised.
Used(rec, name, r, shown) ==
    [rec EXCEPT !.op = name, !.resp = r.resp, !.exc = r.exc,
                !.ret = IF r.raised THEN <<>> ELSE <<shown>>,
                !.calls = @ + 1]

\* The text form of a bytes value or None, and of a bool.
ShowBytes(b) ==
    IF b = NoneBytes THEN None
    ELSE IF b.to = b.from THEN "b''"
    ELSE b.text

ShowBool(b) == IF b THEN "True" ELSE "False"

\* resp.text
AccessText(t) ==
    /\ th[t].pc = "response"
    /\ th[t].calls < MaxAccesses
    /\ LET r == text(th[t].resp)
       IN  th' = [th EXCEPT ![t] =
                     Used(th[t], "text", r,
                          IF r.raised THEN None ELSE ShowBytes(r.value))]
    /\ UNCHANGED <<self, lock>>

\* resp.is_password_request_page
AccessIsPasswordRequestPage(t) ==
    /\ th[t].pc = "response"
    /\ th[t].calls < MaxAccesses
    /\ LET r == is_password_request_page(th[t].resp)
       IN  th' = [th EXCEPT ![t] =
                     Used(th[t], "is_password_request_page", r,
                          IF r.raised THEN None ELSE ShowBool(r.value))]
    /\ UNCHANGED <<self, lock>>

\* resp.get_response_type()
CallGetResponseType(t) ==
    /\ th[t].pc = "response"
    /\ th[t].calls < MaxAccesses
    /\ LET r == get_response_type(th[t].resp)
       IN  th' = [th EXCEPT ![t] = Used(th[t], "get_response_type", r, r.value)]
    /\ UNCHANGED <<self, lock>>

NextResponse ==
    \/ AccessText(1)
    \/ AccessIsPasswordRequestPage(1)
    \/ CallGetResponseType(1)

SpecResponse == InitResponse /\ [][NextResponse]_vars

\* ------------------------------------------------------------------ claims

\* A call that has begun and not yet left its `with self.__lock:`.
InDownload(t) == th[t].pc \notin {"idle", "acquire"}

\* The call of t has ended: it returns, or th[t].exc leaves it.
Ended(t) == th[t].pc = "ending"

\* Threads run: a thread inside a download takes its next step (every call
\* of opener.open, read and write returns or raises).
SpecLive == Spec /\ \A t \in Threads : WF_vars(InDownload(t) /\ Step(t))

\* C1: when every GET of a download was answered by a password page, the
\* call (download_image or download_wado_image) ends by raising
\* WadoConnectionAuthException, and no file is opened and nothing written.
C1_OnlyPasswordPages ==
    \A t \in Threads :
        (InDownload(t) /\ th[t].allPw) =>
            /\ th[t].opens = 0
            /\ th[t].writes = 0
            /\ th[t].f = NoFile
            /\ Ended(t) => th[t].exc.type = "WadoConnectionAuthException"

\* C1 witness: download_wado_image ended after password pages on the resource
\* URL and on the login URL.
C1_Witness ==
    \E t \in Threads :
        /\ Ended(t) /\ th[t].allPw
        /\ th[t].op = "download_wado_image"
        /\ Len(th[t].fetches) = 2

\* The login URL and the resource URL of the call of t.
LoginUrlOf(t) == get_login_url(self)

ResourceUrlOf(t) ==
    IF th[t].op = "download_wado_image" THEN get_resource_url(self, th[t].arg)
    ELSE th[t].arg

\* The login fetch of get_response_top_level has been answered by a response
\* that is not a password page.
LoginAnswered(t) ==
    /\ th[t].op = "download_wado_image"
    /\ th[t].pc = "safe"
    /\ th[t].step = "login"
    /\ LET r == is_password_request_page(th[t].resp)
       IN  ~r.raised /\ ~r.value

\* C2: in get_response_top_level, after a password page on the resource URL
\* and an answer to the login URL that is not a password page, the response
\* returned is the login URL's response; the fetches of the call are the
\* resource URL, then the login URL, and the resource URL is not fetched again.
C2_LoginResponseIsResult ==
    /\ [](\A t \in Threads :
            th[t].op = "download_wado_image" =>
                /\ Len(th[t].fetches) <= 2
                /\ Len(th[t].fetches) = 2 =>
                      th[t].fetches = <<ResourceUrlOf(t), LoginUrlOf(t)>>)
    /\ [][\A t \in Threads :
            (LoginAnswered(t) /\ th'[t] # th[t]) =>
                /\ th'[t].pc = "validate"
                /\ th'[t].exc = NoExc
                /\ th'[t].resp.addinfourl.url = LoginUrlOf(t)
                /\ th'[t].resp.addinfourl.body = th[t].resp.addinfourl.body
                /\ th'[t].resp.addinfourl.cd = th[t].resp.addinfourl.cd
                /\ th'[t].fetches = <<ResourceUrlOf(t), LoginUrlOf(t)>>]_vars

\* C2 witness: get_response_top_level has returned the response of the login
\* URL, here image data that is being written.
C2_Witness ==
    \E t \in Threads :
        /\ th[t].op = "download_wado_image"
        /\ th[t].step = "login"
        /\ th[t].pc = "write"
        /\ th[t].resp.addinfourl.url = LoginUrlOf(t)

\* The response that get_response_safe or get_response_top_level returned to
\* the download of t, and that its checks were applied to, has no
\* Content-Disposition header, or is not image data.
UnnamedOrNoImage(t) ==
    /\ th[t].checked
    /\ \/ th[t].resp.addinfourl.cd = NoHeader
       \/ ~is_image_data(th[t].resp)

\* C3: the file is opened and written only after the filename was found
\* non-empty and is_image_data true; a download whose response has no
\* Content-Disposition header, or is not image data, ends by raising
\* WadoConnectionException with no file opened and nothing written.
C3_NoWriteUnlessNamedImage ==
    \A t \in Threads :
        /\ th[t].opens > 0 =>
              /\ ~get_filename(th[t].resp).raised
              /\ ~NotTruthyName(get_filename(th[t].resp).value)
              /\ is_image_data(th[t].resp)
        /\ UnnamedOrNoImage(t) =>
              /\ th[t].opens = 0 /\ th[t].writes = 0
              /\ Ended(t) => IsWadoConnectionException(th[t].exc)

\* C4: the downloads of one connection are serialised: while a thread is
\* between the first fetch of its download and the end of the download, it
\* owns the lock and every other thread is outside a download, idle or
\* blocked at the download's `with self.__lock:`.
C4_DownloadsSerialised ==
    \A t \in Threads :
        InDownload(t) =>
            /\ lock.owner = {t}
            /\ lock.count >= 1
            /\ \A s \in Threads \ {t} : th[s].pc \in {"idle", "acquire"}

\* C4 witness: a thread is writing its file while another thread has called a
\* download and is blocked.
C4_Witness ==
    \E t \in Threads : \E s \in Threads \ {t} :
        /\ th[t].pc = "write" /\ th[t].writes > 0
        /\ th[s].pc = "acquire"
        /\ ~CanAcquire(lock, s)

\* The GETs of the current get_response_raw are n - 1 timeouts, then a
\* response with status 200.
TimeoutsThen200(t, n) ==
    /\ Len(th[t].log) >= n
    /\ th[t].log[n].result = "200"
    /\ \A i \in 1..(n - 1) : th[t].log[i].result = "timeout"

\* C5: when the first N-1 GETs of get_response_raw time out and the Nth is
\* answered with status 200, N from 1 to 4, the call returns that Nth response
\* after exactly N GETs, made with the timeouts 30, 30, 30, 300 in order.
C5_RetrySchedule ==
    \A t \in Threads : \A n \in 1..4 :
        TimeoutsThen200(t, n) =>
            /\ Len(th[t].log) = n
            /\ th[t].pc = "safe"
            /\ th[t].resp.addinfourl.nth = n
            /\ th[t].resp.addinfourl.code = 200
            /\ \A i \in 1..n : th[t].log[i].timeout = <<30, 30, 30, 300>>[i]

\* C5 witness: three timeouts, then status 200 on the fourth GET, returned.
C5_Witness ==
    \E t \in Threads :
        /\ TimeoutsThen200(t, 4)
        /\ th[t].pc = "safe"

\* The current get_response_raw made its four GETs and none was answered
\* with status 200 or failed with a URLError.
Exhausted(t) ==
    /\ Len(th[t].log) = Len(timeouts_series)
    /\ \A i \in DOMAIN th[t].log : th[t].log[i].result \in {"timeout", "non200"}

\* The number of the last GET of the current get_response_raw that was
\* answered by a response; 0 when none was.
RECURSIVE LastAnswered(_, _)
LastAnswered(log, i) ==
    IF i = 0 THEN 0
    ELSE IF log[i].result \in {"200", "non200"} THEN i
    ELSE LastAnswered(log, i - 1)

\* C6: when get_response_raw exhausts its schedule without a status of 200,
\* it returns the last response it got; when every GET timed out, the last
\* socket.timeout leaves the call.
C6_ExhaustedSchedule ==
    \A t \in Threads :
        Exhausted(t) =>
            LET last == LastAnswered(th[t].log, Len(th[t].log))
            IN  IF last = 0
                THEN th[t].pc = "except" /\ th[t].exc = SocketTimeout
                ELSE th[t].pc = "safe" /\ th[t].resp.addinfourl.nth = last

\* The last response of the call of t, when there is one and it is text, has
\* a body that decodes as UTF-8.
TextDecodes(t) ==
    (th[t].resp # NoResp /\ ContainsTextHtml(th[t].resp.addinfourl.ct))
        => th[t].resp.addinfourl.body.text # "binary"

\* C7: every exception that leaves download_wado_image before the file is
\* opened, whatever the transport did (timeouts, URLError, HTTPError) and
\* whatever headers the responses had, is of the module's taxonomy.
C7_OnlyDomainErrors ==
    \A t \in Threads :
        (Ended(t) /\ th[t].op = "download_wado_image" /\ th[t].exc # NoExc
            /\ th[t].f = NoFile /\ TextDecodes(t))
        => th[t].exc.type \in WadoTaxonomy

\* The first GET of the call of t failed with a URLError that is no HTTPError,
\* and the call has ended.
FirstGetUnreachable(t) ==
    /\ Ended(t)
    /\ Len(th[t].fetches) = 1
    /\ th[t].terr.type = "URLError"

\* C8 as claimed: a URLError that is no HTTPError, on the first fetch, leaves
\* download_image unchanged and makes download_wado_image raise
\* WadoConnectionException; nothing is written.
C8_Original ==
    \A t \in Threads :
        FirstGetUnreachable(t) =>
            /\ th[t].opens = 0 /\ th[t].writes = 0
            /\ th[t].op = "download_image" => th[t].exc = th[t].terr
            /\ th[t].op = "download_wado_image" =>
                  IsWadoConnectionException(th[t].exc)

\* C8 amended: a URLError that is no HTTPError, on the first fetch, leaves
\* download_image unchanged; download_wado_image raises
\* WadoResourceNotFoundException when the error's reason is "Not Found" and
\* WadoConnectionException otherwise; nothing is written.
C8_UrlErrorOnFirstFetch ==
    \A t \in Threads :
        FirstGetUnreachable(t) =>
            /\ th[t].opens = 0 /\ th[t].writes = 0
            /\ th[t].op = "download_image" => th[t].exc = th[t].terr
            /\ th[t].op = "download_wado_image" =>
                  IF th[t].terr.reason = "Not Found"
                  THEN th[t].exc.type = "WadoResourceNotFoundException"
                  ELSE th[t].exc.type = "WadoConnectionException"

\* C8 witness: download_wado_image ended with WadoConnectionException after
\* "Host unreachable" on its first GET.
C8_Witness ==
    \E t \in Threads :
        /\ FirstGetUnreachable(t)
        /\ th[t].op = "download_wado_image"
        /\ th[t].terr.reason = "Host unreachable"
        /\ th[t].exc.type = "WadoConnectionException"

\* Whether a message holds a piece.
HasPiece(msg, piece) == \E i \in DOMAIN msg : msg[i] = piece

\* C9: handle_urlerror never returns and raises: for HTTP 500
\* WadoServerResponseException with the seriesUID hint, for HTTP 403
\* WadoServerResponseException with the credentials hint, for another HTTP
\* code WadoServerResponseException, each keeping the original error; for
\* another failure with reason "Not Found" WadoResourceNotFoundException,
\* else WadoConnectionException naming host and port.  So HTTP 500 on the
\* first fetch ends download_wado_image with WadoServerResponseException.
C9_UrlErrorClasses ==
    \A t \in Threads :
        (Ended(t) /\ th[t].op = "download_wado_image" /\ th[t].terr # NoExc) =>
            LET e == th[t].terr
                x == th[t].exc
            IN  IF e.type = "HTTPError"
                THEN /\ x.type = "WadoServerResponseException"
                     /\ x.org = e
                     /\ e.code = 500 =>
                          HasPiece(x.msg, ": This might happen if you do not include seriesUID explicitly. Original error:'")
                     /\ e.code = 403 =>
                          HasPiece(x.msg, ": Something might be wrong with your credentials error:'")
                ELSE IF e.reason = "Not Found"
                THEN x.type = "WadoResourceNotFoundException"
                ELSE /\ x.type = "WadoConnectionException"
                     /\ HasPiece(x.msg, self.hostname)
                     /\ HasPiece(x.msg, self.port)

\* C9 witness: download_wado_image ended with WadoServerResponseException
\* after HTTP 500 on its first GET.
C9_Witness ==
    \E t \in Threads :
        /\ Ended(t) /\ th[t].op = "download_wado_image"
        /\ Len(th[t].fetches) = 1
        /\ th[t].terr.type = "HTTPError" /\ th[t].terr.code = 500
        /\ th[t].exc.type = "WadoServerResponseException"

\* C10: a URLError or HTTPError from opener.open leaves get_response_raw at
\* once, at whatever pass of the schedule it was raised: it is the last GET of
\* the fetch and the caller of get_response_safe has that exception.
C10_NoRetryOnTransportError ==
    \A t \in Threads : \A i \in DOMAIN th[t].log :
        th[t].log[i].result = "error" =>
            /\ i = Len(th[t].log)
            /\ th[t].pc = "except"
            /\ th[t].exc = th[t].terr
            /\ IsURLError(th[t].exc)

\* C10 witness: a URLError on the second GET, after a timeout, has left the
\* fetch.
C10_Witness ==
    \E t \in Threads :
        /\ Len(th[t].log) = 2
        /\ th[t].log[1].result = "timeout"
        /\ th[t].log[2].result = "error"
        /\ th[t].pc = "except"

\* The message of an exception, <<>> for one that carries none.
MsgOf(e) == IF "msg" \in DOMAIN e THEN e.msg ELSE <<>>

\* C11: no message of an exception raised by the session's operations and no
\* line emitted through mylog, at any log level, holds the session's password.
C11_PasswordRedacted ==
    \A t \in Threads :
        /\ ~HasPiece(th[t].logged, self.password)
        /\ ~HasPiece(MsgOf(th[t].exc), self.password)

\* ceil(n / d)
Ceil(n, d) == (n + d - 1) \div d

\* The download of t has passed its checks on a response with Content-Type
\* application/dicom and a Content-Disposition that names a file.
NamedDicom(t) ==
    /\ th[t].checked
    /\ th[t].resp.addinfourl.ct = "application/dicom"
    /\ th[t].resp.addinfourl.cd = NamedDisposition

\* The call of t has returned normally.
Returned(t) == Ended(t) /\ th[t].exc = NoExc

\* C12: for a response with Content-Type application/dicom and a
\* Content-Disposition with filename=F, download_image opens folder/F and
\* writes the body to it in order, block by block: the blocks written are
\* consecutive ranges of the body from byte 0, every block but the last of
\* 8192 bytes and none longer, with at most ceil(size / 8192) writes; when
\* the call returns, the ranges written are the whole body.
C12_WritesBodyInBlocks ==
    \A t \in Threads :
        (th[t].op = "download_image" /\ NamedDicom(t)) =>
            LET f == th[t].f
                size == th[t].resp.addinfourl.body.size
                n == Len(f.data)
            IN  /\ f # NoFile
                /\ f.path = PathJoin(FOLDER, "testfilename.dcm")
                /\ th[t].opens = 1
                /\ th[t].writes = n
                /\ n <= Ceil(size, 8192)
                /\ \A i \in 1..n :
                      /\ f.data[i].from = (i - 1) * 8192
                      /\ f.data[i].to > f.data[i].from
                      /\ f.data[i].to <= f.data[i].from + 8192
                      /\ i < n => f.data[i].to = f.data[i].from + 8192
                /\ th[t].resp.addinfourl.pos = (IF n = 0 THEN 0 ELSE f.data[n].to)
                /\ Returned(t) =>
                      /\ n = Ceil(size, 8192)
                      /\ th[t].resp.addinfourl.pos = size

\* C12 witness: download_image has returned after writing a body of 8193
\* bytes in two blocks.
C12_Witness ==
    \E t \in Threads :
        /\ th[t].op = "download_image" /\ NamedDicom(t) /\ Returned(t)
        /\ th[t].f.data = << [from |-> 0, to |-> 8192], [from |-> 8192, to |-> 8193] >>

\* C13: write_response closes the file it opened on every path out of it,
\* the normal one and the one where a read of the body or a write to the file
\* raises in the middle of the copy.
C13_FileClosedOnExit ==
    \A t \in Threads :
        (Ended(t) /\ th[t].f # NoFile) => th[t].f.closed

\* The index of the first piece of a message equal to piece; 0 when there is
\* none.
IndexOf(msg, piece) ==
    IF HasPiece(msg, piece)
    THEN CHOOSE i \in DOMAIN msg :
            msg[i] = piece /\ \A j \in 1..(i - 1) : msg[j] # piece
    ELSE 0

\* C14: for every resource parameter mapping, the empty one included, the
\* URL that get_resource_url returns holds the literal
\* "&contentType=application/dicom&requestType=WADO", and when
\* force_transfer_syntax is set it holds "&transferSyntax=" with the value
\* after that literal.
C14_ResourceUrlLiterals ==
    \A t \in Threads :
        th[t].op = "get_resource_url" =>
            LET url == th[t].url
                lit == IndexOf(url, "&contentType=application/dicom&requestType=WADO")
                ts == IndexOf(url, "&transferSyntax=")
            IN  /\ lit > 0
                /\ self.force_transfer_syntax # None =>
                      /\ ts > lit
                      /\ ts < Len(url)
                      /\ url[ts + 1] = self.force_transfer_syntax

\* get_response_safe of the call of t has raised WadoServerResponseException
\* and get_response_top_level is at its handlers.
ServerResponseExcRaised(t) ==
    /\ th[t].op = "download_wado_image"
    /\ th[t].pc = "except"
    /\ th[t].exc.type = "WadoServerResponseException"

\* C15: in get_response_top_level a WadoServerResponseException raised by
\* the fetch of the login URL is replaced by a WadoConnectionException whose
\* message names hostname and port; raised by the first fetch, of the
\* resource URL, it leaves the call unchanged and the login URL is not
\* fetched.
C15_ServerResponseExcHandling ==
    [][\A t \in Threads :
          (ServerResponseExcRaised(t) /\ th'[t] # th[t]) =>
              /\ th'[t].pc = "ending"
              /\ th'[t].fetches = th[t].fetches
              /\ IF th[t].step = "login"
                 THEN /\ th'[t].exc.type = "WadoConnectionException"
                      /\ HasPiece(th'[t].exc.msg, self.hostname)
                      /\ HasPiece(th'[t].exc.msg, self.port)
                 ELSE /\ th'[t].exc = th[t].exc
                      /\ th[t].fetches = <<ResourceUrlOf(t)>>]_vars

\* C15 witness: download_wado_image has ended with the WadoConnectionException
\* that replaces the WadoServerResponseException of the login fetch.
C15_Witness ==
    \E t \in Threads :
        /\ Ended(t) /\ th[t].op = "download_wado_image"
        /\ th[t].step = "login"
        /\ th[t].exc.type = "WadoConnectionException"
        /\ HasPiece(th[t].exc.msg, "No content-type specified for this response")

\* The GETs of the call of t so far are at most those of full schedules for
\* its earlier fetches and the GETs of the current fetch.
GetsAtMost(t, n) ==
    /\ Len(th[t].log) <= Len(timeouts_series)
    /\ (IF th[t].fetches = <<>> THEN 0
        ELSE Len(timeouts_series) * (Len(th[t].fetches) - 1) + Len(th[t].log)) <= n

\* The response in hand is a password page that get_response_safe refused.
RefusedPasswordPage(t) ==
    /\ th[t].pc = "except"
    /\ th[t].exc.type = "WadoConnectionAuthException"
    /\ ContainsTextHtml(th[t].resp.addinfourl.ct)
    /\ HasLoginMarker(th[t].resp.text_)

\* C16: one download_wado_image makes at most two fetches, the resource URL
\* once and then the login URL at most once, and goes on to the login URL only
\* when the fetch of the resource URL returned a password page; with at most
\* four GETs in a fetch that is at most 8 GETs.  One download_image makes one
\* fetch, of the URL it was given, which is not the login URL, so at most 4
\* GETs.
C16_FetchBudget ==
    /\ [](\A t \in Threads :
            /\ th[t].op = "download_wado_image" =>
                  /\ th[t].fetches \in { <<>>, <<ResourceUrlOf(t)>>,
                                         <<ResourceUrlOf(t), LoginUrlOf(t)>> }
                  /\ GetsAtMost(t, 8)
            /\ th[t].op = "download_image" =>
                  /\ th[t].fetches \in { <<>>, <<th[t].arg>> }
                  /\ th[t].fetches # <<LoginUrlOf(t)>>
                  /\ GetsAtMost(t, 4))
    /\ [][\A t \in Threads :
            /\ (th[t].step = "first" /\ th'[t].step = "login") =>
                  /\ RefusedPasswordPage(t)
                  /\ th[t].fetches = <<ResourceUrlOf(t)>>
            /\ Len(th'[t].log) > Len(th[t].log) =>
                  /\ th[t].pc = "open"
                  /\ Len(th'[t].log) = Len(th[t].log) + 1
            /\ Len(th'[t].fetches) > Len(th[t].fetches) =>
                  /\ th[t].pc = "fetch"
                  /\ th'[t].log = <<>>]_vars

\* C16 witness: download_wado_image is at the fourth GET of its second fetch,
\* the one of the login URL.
C16_Witness ==
    \E t \in Threads :
        /\ th[t].op = "download_wado_image"
        /\ th[t].fetches = <<ResourceUrlOf(t), LoginUrlOf(t)>>
        /\ Len(th[t].log) = 4

\* C17: the body of a WadoServerResponse is read at most once through text,
\* whatever the body, the empty one included: after the first use of text or
\* of is_password_request_page, further uses call read() no more.
C17_BodyReadOnce ==
    \A t \in Threads :
        th[t].resp # NoResp => th[t].resp.addinfourl.reads <= 1

\* C18: get_response_type, on a response with a Content-Type (and a text
\* that decodes), raises nothing and returns PASSWORD_REQUEST_PAGE for a
\* password page, else DICOM_DATA when is_image_data holds, else UNKNOWN.
C18_ResponseTypeTotal ==
    \A t \in Threads :
        (th[t].op = "get_response_type"
            /\ th[t].resp.addinfourl.ct # NoHeader /\ TextDecodes(t)) =>
            /\ th[t].exc = NoExc
            /\ th[t].ret =
                  << IF ContainsTextHtml(th[t].resp.addinfourl.ct)
                        /\ th[t].resp.addinfourl.body = LoginBody
                     THEN PASSWORD_REQUEST_PAGE
                     ELSE IF is_image_data(th[t].resp) THEN DICOM_DATA
                     ELSE UNKNOWN >>

\* The response came as a password page: text/html with the login marker in
\* its body.
CameAsLoginPage(a) ==
    ContainsTextHtml(a.ct) /\ a.body.text = "login" /\ a.body.size > 0

\* get_response_safe (download_image) or get_response_top_level
\* (download_wado_image) has returned normally to the download of t.
HandshakeReturned(t) ==
    /\ th[t].op \in {"download_image", "download_wado_image"}
    /\ th[t].pc \in {"validate", "write"} \/ (Ended(t) /\ th[t].checked)

\* C19: a response that get_response_safe or get_response_top_level returns
\* is bound and is not a password page, and it is the response of the last
\* URL fetched, so not the password page of the first attempt; every path
\* through the handshake ends by returning such a response or by raising.
C19_HandshakeResult ==
    /\ [](\A t \in Threads :
            HandshakeReturned(t) =>
                /\ th[t].resp # NoResp
                /\ ~CameAsLoginPage(th[t].resp.addinfourl)
                /\ th[t].resp.addinfourl.url = th[t].fetches[Len(th[t].fetches)])
    /\ [][\A t \in Threads :
            (th[t].pc \in {"safe", "except"} /\ th'[t] # th[t]) =>
                \/ /\ th'[t].pc = "validate"
                   /\ th'[t].exc = NoExc
                   /\ th'[t].resp # NoResp
                   /\ ~CameAsLoginPage(th'[t].resp.addinfourl)
                \/ /\ th'[t].pc \in {"except", "ending"}
                   /\ th'[t].exc # NoExc
                \/ /\ th[t].step = "first" /\ th'[t].step = "login"
                   /\ th'[t].pc = "fetch"
                   /\ CameAsLoginPage(th[t].resp.addinfourl)]_vars

\* C19 witness: get_response_top_level has returned the response of the
\* login URL, which is not a password page, after the password page of the
\* first attempt.
C19_Witness ==
    \E t \in Threads :
        /\ th[t].op = "download_wado_image" /\ th[t].pc = "validate"
        /\ Len(th[t].fetches) = 2
        /\ th[t].resp.addinfourl.ct = TextHtml
        /\ ~CameAsLoginPage(th[t].resp.addinfourl)

\* The response of the call of t as opener.open returned it, nothing read yet.
AsReturned(t) ==
    WadoServerResponse([th[t].resp.addinfourl EXCEPT !.pos = 0, !.reads = 0, !.nth = 0])

\* The blocks of a body of the given size, copied whole.
AllBlocks(size) ==
    [i \in 1..Ceil(size, block_sz) |->
        [from |-> (i - 1) * block_sz,
         to |-> IF i * block_sz < size THEN i * block_sz ELSE size]]

\* What download_image(url, folder) does with the response of its fetch: the
\* exception it ends with, the path it opens and the blocks it writes there.
DownloadImageOutcome(resp) ==
    LET s == SafeCheck(resp)
        e == IF s.raised THEN s.exc ELSE CheckWritable(s.resp)
    IN  IF e # NoExc
        THEN [exc |-> e, path |-> <<>>, data |-> <<>>]
        ELSE [exc |-> NoExc,
              path |-> PathJoin(FOLDER, get_filename(s.resp).value),
              data |-> AllBlocks(resp.addinfourl.body.size)]

\* How the call of t ended.
OutcomeOf(t) ==
    [exc |-> th[t].exc,
     path |-> IF th[t].f = NoFile THEN <<>> ELSE th[t].f.path,
     data |-> IF th[t].f = NoFile THEN <<>> ELSE th[t].f.data]

\* The call of t, for the resource URL of some parameters, has ended after
\* one fetch that returned a response that is not a password page, and no
\* read or write failed during the copy.
EndedOnFirstResponse(t) ==
    /\ Ended(t)
    /\ th[t].op \in {"download_image", "download_wado_image"}
    /\ \E p \in ResourceParams : ResourceUrlOf(t) = get_resource_url(self, p)
    /\ th[t].fetches = <<ResourceUrlOf(t)>>
    /\ th[t].resp # NoResp
    /\ ~CameAsLoginPage(th[t].resp.addinfourl)
    /\ th[t].exc # OSError

\* C20: when the first fetch of the resource URL returns a response that is
\* not a password page, download_wado_image(params, folder) and
\* download_image(get_resource_url(params), folder) end alike: each ends as
\* download_image's steps on that response determine, with the same
\* exception and nothing written, or with the same blocks written to the same
\* path folder/filename; download_wado_image makes no second fetch.
C20_SameOutcome ==
    \A t \in Threads :
        EndedOnFirstResponse(t) =>
            /\ OutcomeOf(t) = DownloadImageOutcome(AsReturned(t))
            /\ th[t].exc # NoExc => th[t].opens = 0 /\ th[t].writes = 0

\* C20 witness: download_wado_image has returned after one fetch, with the
\* two blocks of its response written.
C20_Witness ==
    \E t \in Threads :
        /\ EndedOnFirstResponse(t)
        /\ th[t].op = "download_wado_image"
        /\ Returned(t)
        /\ Len(th[t].f.data) = 2

\* The download of t has reached write_response: its file has been opened.
ReachedWriteResponse(t) ==
    /\ th[t].op \in {"download_image", "download_wado_image"}
    /\ th[t].f # NoFile

\* C21: when a download reaches write_response, the response is image data
\* and no text response, its body has not been read by the password-page
\* check (no read(), nothing cached in _text), and the copy starts at the
\* first byte of the body: the bytes consumed are those written, and when the
\* call returns they are the whole body.
C21_BodyUntouchedBeforeWrite ==
    \A t \in Threads :
        ReachedWriteResponse(t) =>
            LET a == th[t].resp.addinfourl
                data == th[t].f.data
            IN  /\ is_image_data(th[t].resp)
                /\ ~ContainsTextHtml(a.ct)
                /\ a.reads = 0
                /\ th[t].resp.text_ = NoneBytes
                /\ a.pos = (IF data = <<>> THEN 0 ELSE data[Len(data)].to)
                /\ data # <<>> => data[1].from = 0
                /\ Returned(t) => a.pos = a.body.size

\* C21 witness: a download has just opened its file for a body of 8193
\* bytes, none of them read yet.
C21_Witness ==
    \E t \in Threads :
        /\ ReachedWriteResponse(t)
        /\ th[t].pc = "write"
        /\ th[t].writes = 0
        /\ th[t].resp.addinfourl.body = BinaryBody
        /\ th[t].resp.addinfourl.pos = 0

\* The number of `with self.__lock:` blocks the call of t is inside at each
\* position of the code.
NestingDepth(t) ==
    IF ~InDownload(t) THEN 0
    ELSE IF th[t].pc = "open" THEN 4
    ELSE IF th[t].pc = "safe" THEN 2
    ELSE 1

\* C22: the lock is never left held and a thread never blocks on itself: a
\* thread inside a download owns the lock, as many times as it is inside
\* with-blocks, so each nested acquisition returns at once; when no thread is
\* inside a download, however the last one ended, the lock is free and a
\* waiting caller can enter; and a lock that is held is released in the end.
C22_LockReleased ==
    /\ [](\A t \in Threads :
            /\ InDownload(t) =>
                  /\ lock.owner = {t}
                  /\ lock.count = NestingDepth(t)
                  /\ CanAcquire(lock, t)
            /\ (\A s \in Threads : ~InDownload(s)) =>
                  /\ lock = [owner |-> {}, count |-> 0]
                  /\ CanAcquire(lock, t))
    /\ (lock.count > 0) ~> (lock.count = 0)

\* C22 witness: a download has ended with an exception, inside its outermost
\* with-block only, while another caller waits for the lock.
C22_Witness ==
    \E t \in Threads : \E s \in Threads \ {t} :
        /\ Ended(t) /\ th[t].exc # NoExc
        /\ lock = [owner |-> {t}, count |-> 1]
        /\ th[s].pc = "acquire"

\* A GET is made in this step: opener.open is called by some thread.
GetMade == \E t \in Threads : Len(th'[t].log) > Len(th[t].log)

\* The fields that __init__ sets from its arguments.
SessionArgs(s) ==
    <<s.hostname, s.port, s.username, s.password, s.force_transfer_syntax>>

\* C23: over any sequence of operations on one WadoConnection, ending well or
\* not, build_opener is called at most once, by the first GET; from then on
\* _opener is that instance, used by every later GET; and no operation
\* changes hostname, port, username, password or force_transfer_syntax.
C23_OneOpener ==
    /\ [](/\ self.built <= 1
          /\ self.opener_ = None <=> self.built = 0)
    /\ [][/\ SessionArgs(self') = SessionArgs(self)
          /\ self.opener_ # None => (self'.opener_ = self.opener_ /\ self'.built = self.built)
          /\ self'.built # self.built => (GetMade /\ self.opener_ = None)
          /\ GetMade => self'.opener_ # None]_vars

\* C23 witness: the opener built once is in use for the second GET of the
\* fetch of the login URL, on a session with a forced transfer syntax.
C23_Witness ==
    \E t \in Threads :
        /\ self.built = 1 /\ self.opener_ # None
        /\ self.username = "testpass"
        /\ self.force_transfer_syntax # None
        /\ th[t].op = "download_wado_image"
        /\ th[t].fetches = <<ResourceUrlOf(t), LoginUrlOf(t)>>
        /\ Len(th[t].log) = 2

====
